---- MODULE Spec2Model ----
(***************************************************************************)
(* gebeh-web: the control-thread Controller (ts/index.ts), the audio-      *)
(* thread Host (the WasmProcessor of the worklet) and the directional pad  *)
(* (addButtons), as state machines.                                        *)
(*                                                                         *)
(* An async function is cut at its awaits: each action below is the code   *)
(* that runs between two awaits (one task plus the microtasks it queues).  *)
(* A MessagePort is a FIFO queue per direction and per AudioWorkletNode.   *)
(***************************************************************************)
EXTENDS Integers, Sequences, FiniteSets, TLC

\* ---------------------------------------------------------------- bounds
\* ROM selections (change events of rom-input) per page session, in the
\* specification without audio quanta.
MaxSelections == 2
\* ROM selections per page session in the specification with audio quanta.
MaxSessionSelections == 1
\* Host -> Controller messages not yet handled, per port, beyond which the
\* model does not schedule another quantum.
MaxQueue == 2
\* The AudioContext's sample rate in the whole-system specification: small,
\* so that the autosave period is a few quanta.
ModelSampleRate == 26
\* Pointer events on the dpad per run.
MaxDpadEvents == 3
\* Width and height of the dpad's bounding rectangle, in pixels.
DpadSize == 6
\* Pixels of the canvas image (GB_WIDTH * GB_HEIGHT in the program).
ImagePixels == 8
\* Input messages not yet handled by the Host, beyond which the model takes
\* no further key or button event.
MaxInputQueue == 1
\* WebSocket connections (clicks on createRoomBtn or joinRoomBtn) per run.
MaxConns == 2
MaxCalls == 2
MaxSent == 2
MaxSerialConns == 1

\* ------------------------------------------------------- program constants
\* outputChannelCount: [2] of the AudioWorkletNode.
OutputChannelCount == 2
\* "audio data blocks are always 128 frames long"
QuantumFrames == 128
\* "loop every ~5 seconds"
AutosaveSeconds == 5

Selections == 1..MaxSelections
\* getAudioWorkletNode creates at most one node per call, one call per selection.
Hosts == 1..MaxSelections
\* Cartridge titles that decode as strict UTF-8, and the one that does not.
Titles == {"T1"}
InvalidTitle == "invalid"
\* Save RAM contents.
Blobs == {1}

Undefined == [kind |-> "undefined", blob |-> 0]
\* The connections a run can open, none of them opened yet.
Conns == 1..MaxConns
NoSocket == [role |-> "none", port |-> 0, open |-> FALSE, closed |-> FALSE,
             state |-> "none", room |-> "", failed |-> FALSE,
             sent |-> <<>>]
Calls == 1..MaxCalls
IdleCall == [op |-> "none", pc |-> "idle", db |-> 0, title |-> "", blob |-> 0,
             failed |-> "none", value |-> Undefined]
NoText == [text |-> "", room |-> ""]

VARIABLES
  \* ---- Controller (ts/index.ts)
  node,          \* the module-level node: 0 (undefined) or a Host
  isNodeReady,   \* the module-level flag
  notReadyRom,   \* the pending slot: 0 (undefined) or a selection's bytes
  nSel,          \* change events so far
  pc,            \* where each change handler stands
  romTitle,      \* the title region of each selected file
  target,        \* each change handler's local const node
  nHosts,        \* AudioWorkletNodes created so far
  fetching,      \* per port: fetches of the engine module in flight
  flushing,      \* per port: ready handlers awaiting getSave
  detached,      \* selections whose bytes.buffer has been transferred
  store,         \* the object store "saves": title -> stored value
  imageData,     \* imageData.data: RGBA bytes of the canvas image
  \* ---- Host (WasmProcessor), one per node
  constructed,   \* the processor's constructor has run
  emulator,      \* this.emulator is set
  loadedRom,     \* the ROM the engine holds (0: none)
  poor_mans_time,
  sampleRate,    \* the AudioWorkletGlobalScope's sampleRate
  channels,      \* the channels of outputs[0] handed to process()
  pressed,       \* per Host: the last value given to each of the engine's setters
  toHost,        \* port messages Controller -> Host, in order
  toMain,        \* port messages Host -> Controller, in order
  \* ---- observation of the run (not program state)
  lastCall,      \* the last process() call: how it ended, the samples it left
  sinceWrap,     \* per Host: audio frames driven since the counter was last 0
  saveQuery,     \* what get_save returned in the last process() call, if asked
  posts,         \* every postMessage that carried a binary buffer
  reused,        \* buffers their sender used again after posting them
  readyFrom,     \* the Hosts whose ready the Controller has handled
  romPosts,      \* every rom message posted: which ROM, to which Host
  romNoEngine,   \* Hosts that handled a rom message with no engine
  inputNoEngine, \* Hosts that handled an input message with no engine
  romLoads,      \* the ROMs the engine's load_rom was called with
  selEarly,      \* selections made while isNodeReady was false
  lastEarly,     \* the last of them
  needEngineSent, needEngineSeen, payloadSent, payloadSeen, readySent,
  \* ---- directional pad (addButtons)
  dpadState, isPointerDown,
  dpadLog,       \* the input messages posted by the dpad, in order
  dpadEvents,    \* the pointer events handled, in order
  \* ---- network relay (addNetwork)
  ws,            \* per connection: role, port, open, closed, state, failed
  roomDiv,       \* roomDiv.textContent
  \* ---- persistence adapter (getDatabase, getSave, writeSave)
  database,      \* the module-level database: 0 (undefined) or a connection
  nOpens,        \* indexedDB.open calls so far; the n-th yields connection n
  calls,         \* per getSave/writeSave call: where it stands, what it uses
  \* ---- document
  visible        \* document.visibilityState == "visible"

ctlVars == <<node, isNodeReady, notReadyRom, nSel, pc, romTitle, target, nHosts,
             fetching, flushing, detached, store, imageData>>
hostVars == <<constructed, emulator, loadedRom, poor_mans_time, sampleRate, channels,
              pressed>>
chanVars == <<toHost, toMain>>
audioObs == <<lastCall, sinceWrap, saveQuery>>
bootObs == <<posts, reused, readyFrom, romPosts, romNoEngine, inputNoEngine, romLoads, selEarly,
             lastEarly,
             needEngineSent, needEngineSeen, payloadSent, payloadSeen, readySent>>
dpadVars == <<dpadState, isPointerDown, dpadLog, dpadEvents>>
relayVars == <<ws, roomDiv>>
storeVars == <<database, nOpens, calls>>
pageVars == <<visible>>
vars == <<ctlVars, hostVars, chanVars, audioObs, bootObs, dpadVars, relayVars, storeVars,
          pageVars>>

Msg(t, r, s) == [type |-> t, rom |-> r, save |-> s]
FrameMsg(b) == [type |-> "frame", rom |-> 0, save |-> Undefined, buffer |-> b]
InputMsg(b, e) == [type |-> "input", rom |-> 0, save |-> Undefined, button |-> b, event |-> e]
SerialMsg(b) == [type |-> "serial", rom |-> 0, save |-> Undefined, byte |-> b]
GebehButton == {"a", "b", "start", "select", "left", "right", "up", "down"}
NonePressed == [b \in GebehButton |-> FALSE]
\* The output channels are zero-filled when process() is entered.
NoCall == [result |-> "none", left |-> 0, right |-> 0]
AllUp == [left |-> FALSE, right |-> FALSE, up |-> FALSE, down |-> FALSE]

\* ------------------------------------------------------------ pure helpers
\* A getTitleFromRom whose decoder replaces invalid bytes and never throws.
getTitleFromRom_Lossy(s) ==
  [ok |-> TRUE,
   title |-> IF romTitle[s] = InvalidTitle THEN CHOOSE t \in Titles : TRUE ELSE romTitle[s]]

\* getTitleFromRom: the title region decoded with a fatal UTF-8 decoder.
getTitleFromRom(s) ==
  IF romTitle[s] = InvalidTitle THEN [ok |-> FALSE, title |-> InvalidTitle]
                                ELSE [ok |-> TRUE, title |-> romTitle[s]]

\* getSave: the stored value when it is undefined or an ArrayBuffer, an error
\* ("Unknown object from db") for any other stored object.
getSave(t) ==
  IF store[t].kind \in {"undefined", "ArrayBuffer"}
  THEN [ok |-> TRUE, value |-> store[t]]
  ELSE [ok |-> FALSE, value |-> Undefined]

\* writeSave: put(buffer, title) stores the object it is given. The Host's
\* save message carries the Uint8Array get_ram() returned.
writeSave(t, b) == [store EXCEPT ![t] = [kind |-> "Uint8Array", blob |-> b]]

\* The transfer list of a rom message, save ? [bytes.buffer, save.buffer] :
\* [bytes.buffer]: postMessage accepts it when every entry is transferable.
\* An ArrayBuffer has no .buffer, a detached buffer cannot be transferred again.
RomTransferable(s, save) ==
  /\ s \notin detached
  /\ save.kind \in {"undefined", "Uint8Array"}

\* The period with Math.floor in place of Math.round.
AutosavePeriod_Floor(sr) == (AutosaveSeconds * sr) \div QuantumFrames

\* Math.round((sampleRate / 128) * 5): round half up.
AutosavePeriod(sr) == (2 * AutosaveSeconds * sr + QuantumFrames) \div (2 * QuantumFrames)

\* imageData.data.fill(0xaa) on the image createImageData returned.
InitialImage == [j \in 1..(4 * ImagePixels) |-> 170]

\* A decode that takes the least-significant pair first.
Gray_LeastSignificantFirst(byte, k) == (((byte \div (2 ^ (2 * k))) % 4) * 255) \div 3

\* gray = (((byte >> (6 - 2 * index_2bits)) & 0b11) * 255) / 3
Gray(byte, k) == (((byte \div (2 ^ (6 - 2 * k))) % 4) * 255) \div 3

\* The two loops over the entries of the buffer and index_2bits = 0..3 write
\* data[index_color .. index_color + 3] = gray, gray, gray, 255 with
\* index_color = (index * 4 + index_2bits) * 4. Each byte of data is the
\* target of at most one of these writes; a write past the end of the
\* Uint8ClampedArray does nothing, so the array keeps its length.
DecodeFrame(data, buffer) ==
  [j \in 1..Len(data) |->
     LET pixel == (j - 1) \div 4
         index == pixel \div 4
         index_2bits == pixel % 4
     IN IF index >= Len(buffer) THEN data[j]
        ELSE IF (j - 1) % 4 = 3 THEN 255
        ELSE Gray(buffer[index + 1], index_2bits)]

\* ---------------------------------------------------------------- Controller
\* A rom message posted without its transfer list: the bytes are copied.
PostRom_Copied(s, h, save) ==
  /\ toHost' = [toHost EXCEPT ![h] = Append(@, Msg("rom", s, save))]
  /\ detached' = detached
  /\ posts' = posts \cup {[type |-> "rom", transfer |-> FALSE]}
  /\ romPosts' = romPosts \cup {[rom |-> s, host |-> h, early |-> h \notin readyFrom,
                                  saveLookedUp |-> save = store[getTitleFromRom(s).title]]}

\* port.postMessage({type: "rom", bytes, save}, [bytes.buffer, ...]) to Host h.
PostRom(s, h, save) ==
  /\ toHost' = [toHost EXCEPT ![h] = Append(@, Msg("rom", s, save))]
  /\ detached' = detached \cup {s}
  /\ posts' = posts \cup {[type |-> "rom", transfer |-> TRUE]}
  /\ romPosts' = romPosts \cup {[rom |-> s, host |-> h, early |-> h \notin readyFrom,
                                  saveLookedUp |-> save = store[getTitleFromRom(s).title]]}

\* romInput "change": a file is chosen, the handler awaits file.arrayBuffer().
SelectRom(t) ==
  /\ nSel' = nSel + 1
  /\ pc' = [pc EXCEPT ![nSel + 1] = "read"]
  /\ romTitle' = [romTitle EXCEPT ![nSel + 1] = t]
  /\ selEarly' = IF isNodeReady THEN selEarly ELSE selEarly \cup {nSel + 1}
  /\ lastEarly' = IF isNodeReady THEN lastEarly ELSE nSel + 1
  /\ UNCHANGED <<node, isNodeReady, notReadyRom, target, nHosts, fetching, flushing,
                 detached, store, imageData, hostVars, chanVars, audioObs, dpadVars, storeVars, pageVars, relayVars,
                 posts, reused, readyFrom, romPosts, romNoEngine, inputNoEngine, romLoads,
                 needEngineSent, needEngineSeen, payloadSent, payloadSeen, readySent>>

\* The change handler once it holds its node n: if (isNodeReady) { await
\* getSave(getTitleFromRom(bytes)) ... } else { notReadyRom = bytes }.
AfterNode(s, n) ==
  IF isNodeReady
  THEN /\ pc' = [pc EXCEPT ![s] = IF getTitleFromRom(s).ok THEN "save" ELSE "failed"]
       /\ target' = [target EXCEPT ![s] = n]
       /\ UNCHANGED notReadyRom
  ELSE /\ notReadyRom' = s
       /\ pc' = [pc EXCEPT ![s] = "done"]
       /\ UNCHANGED target

\* file.arrayBuffer() resolves; getAudioWorkletNode() returns the existing node
\* or starts a new AudioContext and awaits addModule.
ReadDone(s) ==
  /\ pc[s] = "read"
  /\ IF node # 0
     THEN AfterNode(s, node)
     ELSE /\ pc' = [pc EXCEPT ![s] = "module"]
          /\ UNCHANGED <<notReadyRom, target>>
  /\ UNCHANGED <<node, isNodeReady, nSel, romTitle, nHosts, fetching, flushing,
                 detached, store, imageData, hostVars, chanVars, audioObs, bootObs, dpadVars, storeVars, pageVars, relayVars>>

\* addModule resolves: node = new AudioWorkletNode(...), the listeners are
\* added, the port started; the change handler continues with that node.
ModuleDone(s) ==
  /\ pc[s] = "module"
  /\ nHosts' = nHosts + 1
  /\ node' = nHosts + 1
  /\ AfterNode(s, nHosts + 1)
  /\ UNCHANGED <<isNodeReady, nSel, romTitle, fetching, flushing,
                 detached, store, imageData, hostVars, chanVars, audioObs, bootObs, dpadVars, storeVars, pageVars, relayVars>>

\* getSave resolves in the change handler: the rom message is posted to the
\* handler's node, or the handler ends with the error.
SaveDone(s) ==
  /\ pc[s] = "save"
  /\ LET r == getSave(getTitleFromRom(s).title) IN
       IF r.ok /\ RomTransferable(s, r.value)
       THEN /\ PostRom(s, target[s], r.value)
            /\ pc' = [pc EXCEPT ![s] = "done"]
       ELSE /\ pc' = [pc EXCEPT ![s] = "failed"]
            /\ UNCHANGED <<toHost, detached, posts, romPosts>>
  /\ UNCHANGED <<node, isNodeReady, notReadyRom, nSel, romTitle, target, nHosts,
                 fetching, flushing, store, imageData, hostVars, toMain, audioObs, dpadVars, storeVars, pageVars, relayVars,
                 reused, readyFrom, romNoEngine, inputNoEngine, romLoads, selEarly, lastEarly,
                 needEngineSent, needEngineSeen, payloadSent, payloadSeen, readySent>>

\* case "ready": isNodeReady = true; if (notReadyRom) await getSave(
\* getTitleFromRom(new Uint8Array(notReadyRom))): copying a detached array
\* and decoding an invalid title both throw.
OnReady(h) ==
  /\ isNodeReady' = TRUE
  /\ readyFrom' = readyFrom \cup {h}
  /\ IF notReadyRom = 0
     THEN UNCHANGED <<flushing, reused>>
     ELSE IF notReadyRom \in detached
     THEN /\ reused' = reused \cup {"rom"}
          /\ UNCHANGED flushing
     ELSE /\ flushing' = [flushing EXCEPT ![h] =
                            IF getTitleFromRom(notReadyRom).ok THEN @ + 1 ELSE @]
          /\ UNCHANGED reused
  /\ UNCHANGED <<fetching, store, imageData, needEngineSeen>>

\* case "wasm": void fetch("pkg/gebeh_web_bg.wasm")...
OnWasm(h) ==
  /\ fetching' = [fetching EXCEPT ![h] = @ + 1]
  /\ needEngineSeen' = [needEngineSeen EXCEPT ![h] = @ + 1]
  /\ UNCHANGED <<isNodeReady, readyFrom, flushing, reused, store, imageData>>

\* case "frame": the frame is decoded into imageData and painted.
OnFrame(h, m) ==
  /\ imageData' = DecodeFrame(imageData, m.buffer)
  /\ UNCHANGED <<isNodeReady, readyFrom, flushing, reused, store, fetching, needEngineSeen>>

\* case "save": await writeSave(data.title, data.buffer).
OnSave(h, m) ==
  /\ store' = writeSave(romTitle[m.rom], m.save.blob)
  /\ UNCHANGED <<isNodeReady, readyFrom, flushing, reused, fetching, needEngineSeen,
                 imageData>>

\* The listeners addNetwork added to node h's port at "open", on a serial
\* message: ws.send(new Uint8Array([data.byte])) on every such connection; a
\* closed WebSocket discards what is sent.
SendSerial(h, byte) ==
  [c \in Conns |->
     IF ws[c].port = h /\ ws[c].open /\ ~ws[c].closed
     THEN [ws[c] EXCEPT !.sent = Append(@, byte)]
     ELSE ws[c]]

\* The switch of index.ts has no case for a serial message.
OnSerial(h) ==
  UNCHANGED <<isNodeReady, readyFrom, flushing, reused, store, fetching, needEngineSeen,
              imageData>>

\* The message listeners of node h's port: one message, switch (data.type),
\* and the relay's listeners.
MainHandle(h) ==
  /\ h <= nHosts
  /\ toMain[h] # <<>>
  /\ LET m == Head(toMain[h]) IN
       /\ CASE m.type = "ready" -> OnReady(h)
            [] m.type = "wasm" -> OnWasm(h)
            [] m.type = "frame" -> OnFrame(h, m)
            [] m.type = "save" -> OnSave(h, m)
            [] m.type = "serial" -> OnSerial(h)
       /\ ws' = IF m.type = "serial" THEN SendSerial(h, m.byte) ELSE ws
  /\ toMain' = [toMain EXCEPT ![h] = Tail(@)]
  /\ UNCHANGED <<node, notReadyRom, nSel, pc, romTitle, target, nHosts, detached,
                 hostVars, toHost, audioObs, dpadVars, storeVars, pageVars, roomDiv, posts, romPosts, romNoEngine, inputNoEngine, romLoads,
                 selEarly, lastEarly, needEngineSent, payloadSent, payloadSeen, readySent>>

\* The fetch of the engine module resolves: port.postMessage({type: "wasm",
\* bytes}, [bytes.buffer]).
FetchDone(h) ==
  /\ fetching[h] > 0
  /\ fetching' = [fetching EXCEPT ![h] = @ - 1]
  /\ toHost' = [toHost EXCEPT ![h] = Append(@, Msg("wasm", 0, Undefined))]
  /\ payloadSent' = [payloadSent EXCEPT ![h] = @ + 1]
  /\ posts' = posts \cup {[type |-> "wasm", transfer |-> TRUE]}
  /\ UNCHANGED <<node, isNodeReady, notReadyRom, nSel, pc, romTitle, target, nHosts,
                 flushing, detached, store, imageData, hostVars, toMain, audioObs, dpadVars, storeVars, pageVars, relayVars,
                 reused, readyFrom, romPosts, romNoEngine, inputNoEngine, romLoads, selEarly, lastEarly,
                 needEngineSent, needEngineSeen, payloadSeen, readySent>>

\* getSave resolves in the ready handler: port.postMessage({type: "rom",
\* bytes: notReadyRom, save}, [notReadyRom.buffer, ...]).
FlushDone(h) ==
  /\ flushing[h] > 0
  /\ flushing' = [flushing EXCEPT ![h] = @ - 1]
  /\ LET r == getSave(getTitleFromRom(notReadyRom).title) IN
       IF r.ok /\ RomTransferable(notReadyRom, r.value)
       THEN /\ PostRom(notReadyRom, h, r.value)
            /\ UNCHANGED reused
       ELSE /\ reused' = IF notReadyRom \in detached THEN reused \cup {"rom"} ELSE reused
            /\ UNCHANGED <<toHost, detached, posts, romPosts>>
  /\ UNCHANGED <<node, isNodeReady, notReadyRom, nSel, pc, romTitle, target, nHosts,
                 fetching, store, imageData, hostVars, toMain, audioObs, dpadVars, storeVars, pageVars, relayVars,
                 readyFrom, romNoEngine, inputNoEngine, romLoads, selEarly, lastEarly,
                 needEngineSent, needEngineSeen, payloadSent, payloadSeen, readySent>>

\* ---------------------------------------------------------------------- Host
\* WasmProcessor's constructor: the message listener is added, the port
\* started and {type: "wasm"} posted.
HostConstruct(h) ==
  /\ h <= nHosts
  /\ ~constructed[h]
  /\ constructed' = [constructed EXCEPT ![h] = TRUE]
  /\ toMain' = [toMain EXCEPT ![h] = Append(@, Msg("wasm", 0, Undefined))]
  /\ needEngineSent' = [needEngineSent EXCEPT ![h] = @ + 1]
  /\ UNCHANGED <<ctlVars, emulator, loadedRom, poor_mans_time, sampleRate, channels, pressed,
                 toHost,
                 audioObs, dpadVars, storeVars, pageVars, relayVars, posts, reused, readyFrom, romPosts, romNoEngine, inputNoEngine, romLoads,
                 selEarly, lastEarly, needEngineSeen, payloadSent, payloadSeen,
                 readySent>>

\* case "rom": this.emulator?.load_rom(bytes, save).
HostOnRom(h, m) ==
  /\ IF emulator[h]
     THEN /\ loadedRom' = [loadedRom EXCEPT ![h] = m.rom]
          /\ romLoads' = romLoads \cup {m.rom}
          /\ UNCHANGED romNoEngine
     ELSE /\ romNoEngine' = romNoEngine \cup {h}
          /\ UNCHANGED <<loadedRom, romLoads>>
  /\ UNCHANGED <<emulator, pressed, toMain, inputNoEngine, payloadSeen, readySent>>

\* A "wasm" case that posts ready without having set this.emulator.
HostOnWasm_ReadyWithoutEngine(h) ==
  /\ toMain' = [toMain EXCEPT ![h] = Append(@, Msg("ready", 0, Undefined))]
  /\ payloadSeen' = [payloadSeen EXCEPT ![h] = @ + 1]
  /\ readySent' = [readySent EXCEPT ![h] = @ + 1]
  /\ UNCHANGED <<emulator, loadedRom, pressed, romNoEngine, inputNoEngine, romLoads>>

\* case "wasm": initSync({module}); this.emulator = new WebEmulator(); the
\* new engine holds no ROM and has had no setter called; {type: "ready"} is
\* posted.
HostOnWasm(h) ==
  /\ emulator' = [emulator EXCEPT ![h] = TRUE]
  /\ loadedRom' = [loadedRom EXCEPT ![h] = 0]
  /\ pressed' = [pressed EXCEPT ![h] = NonePressed]
  /\ toMain' = [toMain EXCEPT ![h] = Append(@, Msg("ready", 0, Undefined))]
  /\ payloadSeen' = [payloadSeen EXCEPT ![h] = @ + 1]
  /\ readySent' = [readySent EXCEPT ![h] = @ + 1]
  /\ UNCHANGED <<romNoEngine, inputNoEngine, romLoads>>

\* A "input" case with the edge inverted: the setter is given event === "up".
HostOnInput_Inverted(h, m) ==
  /\ pressed' = IF emulator[h] THEN [pressed EXCEPT ![h][m.button] = (m.event = "up")]
                ELSE pressed
  /\ inputNoEngine' = IF emulator[h] THEN inputNoEngine ELSE inputNoEngine \cup {h}
  /\ UNCHANGED <<emulator, loadedRom, toMain, romNoEngine, romLoads, payloadSeen, readySent>>

\* An "input" case that keeps the edge when there is no engine yet.
HostOnInput_KeptForLater(h, m) ==
  /\ pressed' = [pressed EXCEPT ![h][m.button] = (m.event = "down")]
  /\ inputNoEngine' = IF emulator[h] THEN inputNoEngine ELSE inputNoEngine \cup {h}
  /\ UNCHANGED <<emulator, loadedRom, toMain, romNoEngine, romLoads, payloadSeen, readySent>>

\* case "input": is_down = data.event === "down"; this.emulator?.set_<button>(
\* is_down).
HostOnInput(h, m) ==
  /\ pressed' = IF emulator[h] THEN [pressed EXCEPT ![h][m.button] = (m.event = "down")]
                ELSE pressed
  /\ inputNoEngine' = IF emulator[h] THEN inputNoEngine ELSE inputNoEngine \cup {h}
  /\ UNCHANGED <<emulator, loadedRom, toMain, romNoEngine, romLoads, payloadSeen, readySent>>

\* Any other message type: the switch has no case for it.
HostIgnores(h, m) ==
  UNCHANGED <<emulator, loadedRom, pressed, toMain, romNoEngine, inputNoEngine, romLoads, payloadSeen,
              readySent>>

\* The message listener of the processor's port: one message.
HostHandle(h) ==
  /\ constructed[h]
  /\ toHost[h] # <<>>
  /\ LET m == Head(toHost[h]) IN
       CASE m.type = "rom" -> HostOnRom(h, m)
         [] m.type = "wasm" -> HostOnWasm(h)
         [] m.type = "input" -> HostOnInput(h, m)
         [] OTHER -> HostIgnores(h, m)
  /\ toHost' = [toHost EXCEPT ![h] = Tail(@)]
  /\ UNCHANGED <<ctlVars, constructed, poor_mans_time, sampleRate, channels, audioObs, dpadVars, storeVars, pageVars, relayVars,
                 posts, reused, readyFrom, romPosts, selEarly, lastEarly,
                 needEngineSent, needEngineSeen, payloadSent>>

\* The engine (the wasm module, outside these sources). drive_and_sample
\* fills both channels and calls the frame callback at most once; get_save
\* returns the battery RAM of the loaded cartridge, or undefined.
EngineOutputs == {[left |-> 0, right |-> 0], [left |-> 1, right |-> 1]}
\* The frame drive_and_sample leaves in currentFrame: GB_WIDTH * GB_HEIGHT bytes.
EngineFrame == [i \in 1..ImagePixels |-> 0]
EngineSaves(h) ==
  {Undefined} \cup
  (IF loadedRom[h] = 0 THEN {} ELSE {[kind |-> "Uint8Array", blob |-> b] : b \in Blobs})

\* The frame and save messages of one driven quantum.
QuantumMessages(h, frame, save, wrapped) ==
  (IF frame THEN <<FrameMsg(EngineFrame)>> ELSE <<>>) \o
  (IF wrapped /\ save.kind # "undefined" THEN <<Msg("save", loadedRom[h], save)>> ELSE <<>>)

\* What those messages carry: currentFrame is posted without a transfer list,
\* the save RAM with [ram.buffer].
QuantumPosts(frame, save, wrapped) ==
  (IF frame THEN {[type |-> "frame", transfer |-> FALSE]} ELSE {}) \cup
  (IF wrapped /\ save.kind # "undefined" THEN {[type |-> "save", transfer |-> TRUE]} ELSE {})

\* A process() that asks get_save on every driven quantum.
processDrive_SaveEveryQuantum(h) ==
  \E out \in EngineOutputs, frame \in BOOLEAN, save \in EngineSaves(h) :
    LET t == (poor_mans_time[h] + 1) % AutosavePeriod(sampleRate) IN
    /\ poor_mans_time' = [poor_mans_time EXCEPT ![h] = t]
    /\ toMain' = [toMain EXCEPT ![h] = @ \o QuantumMessages(h, frame, save, TRUE)]
    /\ posts' = posts \cup QuantumPosts(frame, save, TRUE)
    /\ sinceWrap' = [sinceWrap EXCEPT ![h] = IF t = 0 THEN 0 ELSE @ + QuantumFrames]
    /\ saveQuery' = (IF save = Undefined THEN "absent" ELSE "present")
    /\ lastCall' = [result |-> "true", left |-> out.left, right |-> out.right]

\* process() with an engine: drive_and_sample, then poor_mans_time advances
\* and, when it is back at 0, get_save is asked for the save.
processDrive(h) ==
  \E out \in EngineOutputs, frame \in BOOLEAN, save \in EngineSaves(h) :
    LET t == (poor_mans_time[h] + 1) % AutosavePeriod(sampleRate) IN
    /\ poor_mans_time' = [poor_mans_time EXCEPT ![h] = t]
    /\ toMain' = [toMain EXCEPT ![h] = @ \o QuantumMessages(h, frame, save, t = 0)]
    /\ posts' = posts \cup QuantumPosts(frame, save, t = 0)
    /\ sinceWrap' = [sinceWrap EXCEPT ![h] = IF t = 0 THEN 0 ELSE @ + QuantumFrames]
    /\ saveQuery' = (IF t # 0 THEN "none" ELSE IF save = Undefined THEN "absent" ELSE "present")
    /\ lastCall' = [result |-> "true", left |-> out.left, right |-> out.right]

\* process() ending before the engine is driven: throw new Error("No stereo"),
\* or return true with the channels as they were handed in.
processEarly(result) ==
  /\ lastCall' = [NoCall EXCEPT !.result = result]
  /\ saveQuery' = "none"
  /\ UNCHANGED <<poor_mans_time, toMain, posts, sinceWrap>>

\* A process() that advances the autosave counter on every call.
process_CountsEveryQuantum(h) ==
  /\ constructed[h]
  /\ IF channels < 2 THEN processEarly("throw")
     ELSE IF ~emulator[h]
     THEN /\ lastCall' = [NoCall EXCEPT !.result = "true"]
          /\ saveQuery' = "none"
          /\ poor_mans_time' =
               [poor_mans_time EXCEPT ![h] = (@ + 1) % AutosavePeriod(sampleRate)]
          /\ UNCHANGED <<toMain, posts, sinceWrap>>
     ELSE processDrive(h)
  /\ UNCHANGED <<ctlVars, constructed, emulator, loadedRom, sampleRate, channels, pressed,
                 toHost, dpadVars, storeVars, pageVars, relayVars,
                 reused, readyFrom, romPosts, romNoEngine, inputNoEngine, romLoads, selEarly, lastEarly,
                 needEngineSent, needEngineSeen, payloadSent, payloadSeen, readySent>>

\* A process() that looks for the engine before it looks at the channels.
process_EngineCheckFirst(h) ==
  /\ constructed[h]
  /\ IF ~emulator[h] THEN processEarly("true")
     ELSE IF channels < 2 THEN processEarly("throw")
     ELSE processDrive(h)
  /\ UNCHANGED <<ctlVars, constructed, emulator, loadedRom, sampleRate, channels, pressed,
                 toHost, dpadVars, storeVars, pageVars, relayVars,
                 reused, readyFrom, romPosts, romNoEngine, inputNoEngine, romLoads, selEarly, lastEarly,
                 needEngineSent, needEngineSeen, payloadSent, payloadSeen, readySent>>

\* A process() that drives whether or not an engine is set.
process_NoEngineCheck(h) ==
  /\ constructed[h]
  /\ IF channels < 2 THEN processEarly("throw") ELSE processDrive(h)
  /\ UNCHANGED <<ctlVars, constructed, emulator, loadedRom, sampleRate, channels, pressed,
                 toHost, dpadVars, storeVars, pageVars, relayVars,
                 reused, readyFrom, romPosts, romNoEngine, inputNoEngine, romLoads, selEarly, lastEarly,
                 needEngineSent, needEngineSeen, payloadSent, payloadSeen, readySent>>

\* A process() that runs only once the engine is there and no control message
\* is waiting.
process_WaitsForControl(h) ==
  /\ constructed[h] /\ emulator[h] /\ toHost[h] = <<>>
  /\ IF channels < 2 THEN processEarly("throw") ELSE processDrive(h)
  /\ UNCHANGED <<ctlVars, constructed, emulator, loadedRom, sampleRate, channels, pressed,
                 toHost, dpadVars, storeVars, pageVars, relayVars,
                 reused, readyFrom, romPosts, romNoEngine, inputNoEngine, romLoads, selEarly, lastEarly,
                 needEngineSent, needEngineSeen, payloadSent, payloadSeen, readySent>>

\* process(): throws without both channels, returns true at once without an
\* engine, else drives the engine.
process(h) ==
  /\ constructed[h]
  /\ IF channels < 2 THEN processEarly("throw")
     ELSE IF ~emulator[h] THEN processEarly("true")
     ELSE processDrive(h)
  /\ UNCHANGED <<ctlVars, constructed, emulator, loadedRom, sampleRate, channels, pressed,
                 toHost, dpadVars, storeVars, pageVars, relayVars,
                 reused, readyFrom, romPosts, romNoEngine, inputNoEngine, romLoads, selEarly, lastEarly,
                 needEngineSent, needEngineSeen, payloadSent, payloadSeen, readySent>>

\* One audio quantum of Host h, while the model's queue bound allows.
Quantum(h) ==
  /\ Len(toMain[h]) < MaxQueue
  /\ process(h)

\* ------------------------------------------------------------ directional pad
\* Pointer coordinates relative to the dpad's rectangle: outside before it,
\* first third, middle, last third, outside after it.
Coords == {-1, 1, DpadSize \div 2, DpadSize - 1, DpadSize + 1}
Buttons == <<"left", "right", "up", "down">>

\* inside: clientX/Y within the bounding rectangle, borders included.
Inside(x, y) == x >= 0 /\ x <= DpadSize /\ y >= 0 /\ y <= DpadSize

\* {left: x < 1/3, right: x > 2/3, up: y < 1/3, down: y > 2/3} with
\* x = (clientX - rect.left) / rect.width, y likewise.
ZoneState(x, y) ==
  [left |-> 3 * x < DpadSize, right |-> 3 * x > 2 * DpadSize,
   up |-> 3 * y < DpadSize, down |-> 3 * y > 2 * DpadSize]

\* The messages applyDpadState posts: for left, right, up, down in this
\* order, one message when before !== now.
RECURSIVE DpadMessages(_, _, _)
DpadMessages(old, new, i) ==
  IF i > Len(Buttons) THEN <<>>
  ELSE LET b == Buttons[i] IN
       (IF old[b] = new[b] THEN <<>>
        ELSE <<[button |-> b, event |-> IF new[b] THEN "down" ELSE "up"]>>)
       \o DpadMessages(old, new, i + 1)

\* The input messages for the edges m, as posted to the port.
InputMsgs(m) == [i \in 1..Len(m) |-> InputMsg(m[i].button, m[i].event)]

\* An applyDpadState that posts the messages and forgets the new state.
applyDpadState_StateNotStored(new) ==
  /\ dpadLog' = dpadLog \o DpadMessages(dpadState, new, 1)
  /\ toHost' = [toHost EXCEPT ![node] = @ \o InputMsgs(DpadMessages(dpadState, new, 1))]
  /\ dpadState' = dpadState

\* applyDpadState(newDpadState): post the messages, then dpadState = newDpadState.
applyDpadState(new) ==
  /\ dpadLog' = dpadLog \o DpadMessages(dpadState, new, 1)
  /\ toHost' = [toHost EXCEPT ![node] = @ \o InputMsgs(DpadMessages(dpadState, new, 1))]
  /\ dpadState' = new

\* A cancelPointer that releases the directions and leaves isPointerDown.
cancelPointer_StaysDown ==
  /\ isPointerDown' = isPointerDown
  /\ applyDpadState(AllUp)

\* cancelPointer: isPointerDown = false; releasePointerCapture; every
\* direction released.
cancelPointer ==
  /\ isPointerDown' = FALSE
  /\ applyDpadState(AllUp)

\* handlePress, entered with isPointerDown as down: nothing when the pointer
\* is not down, cancelPointer when it is outside, else the zone test.
handlePress(down, x, y) ==
  IF ~down
  THEN UNCHANGED <<dpadState, isPointerDown, dpadLog, toHost>>
  ELSE IF ~Inside(x, y)
  THEN cancelPointer
  ELSE /\ isPointerDown' = down
       /\ applyDpadState(ZoneState(x, y))

DpadEvent(type, x, y) ==
  [type |-> type, inside |-> Inside(x, y),
   zone |-> IF Inside(x, y) THEN ZoneState(x, y) ELSE AllUp]

\* dpad "pointerdown": isPointerDown = true; setPointerCapture; handlePress.
PointerDown(x, y) ==
  /\ Len(dpadEvents) < MaxDpadEvents
  /\ handlePress(TRUE, x, y)
  /\ dpadEvents' = Append(dpadEvents, DpadEvent("pointerdown", x, y))
  /\ UNCHANGED <<ctlVars, hostVars, toMain, audioObs, bootObs, relayVars, storeVars, pageVars>>

\* dpad "pointermove": handlePress.
PointerMove(x, y) ==
  /\ Len(dpadEvents) < MaxDpadEvents
  /\ handlePress(isPointerDown, x, y)
  /\ dpadEvents' = Append(dpadEvents, DpadEvent("pointermove", x, y))
  /\ UNCHANGED <<ctlVars, hostVars, toMain, audioObs, bootObs, relayVars, storeVars, pageVars>>

\* dpad "pointerup" and "pointercancel": cancelPointer.
PointerEnd(type) ==
  /\ Len(dpadEvents) < MaxDpadEvents
  /\ cancelPointer
  /\ dpadEvents' = Append(dpadEvents, [type |-> type, inside |-> FALSE, zone |-> AllUp])
  /\ UNCHANGED <<ctlVars, hostVars, toMain, audioObs, bootObs, relayVars, storeVars, pageVars>>

\* ------------------------------ directional pad of gebeh-web/ts/buttons.ts
\* newDpadState = {left: x < 1/3, right: x > 2/3, up: y < 1/3, down: y > 2/3}
\* with x = (event.clientX - rect.left) / rect.width, y likewise.
newDpadState(x, y) ==
  [left |-> 3 * x < DpadSize, right |-> 3 * x > 2 * DpadSize,
   up |-> 3 * y < DpadSize, down |-> 3 * y > 2 * DpadSize]

\* The loop of the pointerdown listener: for left, right, up, down in this
\* order, a down message when before !== now && now.
DownEdges(old, new) ==
  LET pressedNow == SelectSeq(Buttons, LAMBDA b : old[b] # new[b] /\ new[b])
  IN [i \in 1..Len(pressedNow) |-> [button |-> pressedNow[i], event |-> "down"]]

\* The loop of the pointerup listener: an up message for each direction that
\* dpadState holds, in the same order.
UpEdges(old) ==
  LET held == SelectSeq(Buttons, LAMBDA b : old[b])
  IN [i \in 1..Len(held) |-> [button |-> held[i], event |-> "up"]]

\* dpad "pointerdown", which the element gets for a pointer inside it: the
\* loop, then dpadState = newDpadState.
DpadPointerDown(x, y) ==
  /\ Len(dpadEvents) < MaxDpadEvents
  /\ Inside(x, y)
  /\ dpadLog' = dpadLog \o DownEdges(dpadState, newDpadState(x, y))
  /\ toHost' = [toHost EXCEPT ![node] =
                  @ \o InputMsgs(DownEdges(dpadState, newDpadState(x, y)))]
  /\ dpadState' = newDpadState(x, y)
  /\ dpadEvents' = Append(dpadEvents, [type |-> "pointerdown", inside |-> TRUE,
                                          zone |-> newDpadState(x, y)])
  /\ UNCHANGED <<isPointerDown, ctlVars, hostVars, toMain, audioObs, bootObs, relayVars,
                 storeVars, pageVars>>

\* dpad "pointerup": the loop, then dpadState is all-false.
DpadPointerUp ==
  /\ Len(dpadEvents) < MaxDpadEvents
  /\ dpadLog' = dpadLog \o UpEdges(dpadState)
  /\ toHost' = [toHost EXCEPT ![node] = @ \o InputMsgs(UpEdges(dpadState))]
  /\ dpadState' = AllUp
  /\ dpadEvents' = Append(dpadEvents, [type |-> "pointerup", inside |-> FALSE, zone |-> AllUp])
  /\ UNCHANGED <<isPointerDown, ctlVars, hostVars, toMain, audioObs, bootObs, relayVars,
                 storeVars, pageVars>>

\* ------------------------------------------------------- keys and buttons
\* The keys pressed on the canvas: the mapped ones, in either case, and one
\* that input_mapping does not know.
Keys == {"a", "A", "b", "Enter", "Backspace", "ArrowLeft", "ArrowRight", "ArrowUp",
         "ArrowDown", "x"}

\* input_mapping(key): key.toLocaleLowerCase() mapped to a button, or undefined.
input_mapping(key) ==
  CASE key \in {"a", "A"} -> "a"
    [] key \in {"b"} -> "b"
    [] key = "Enter" -> "start"
    [] key = "Backspace" -> "select"
    [] key = "ArrowLeft" -> "left"
    [] key = "ArrowRight" -> "right"
    [] key = "ArrowUp" -> "up"
    [] key = "ArrowDown" -> "down"
    [] OTHER -> "undefined"

\* Key listeners that do not look at event.repeat.
KeyEvent_RepeatsPost(type, key, repeat) ==
  /\ node # 0
  /\ Len(toHost[node]) < MaxInputQueue
  /\ toHost' = [toHost EXCEPT ![node] =
                  IF input_mapping(key) = "undefined"
                  THEN @
                  ELSE Append(@, InputMsg(input_mapping(key),
                                          IF type = "keydown" THEN "down" ELSE "up"))]
  /\ UNCHANGED <<ctlVars, hostVars, toMain, audioObs, bootObs, dpadVars, storeVars, pageVars, relayVars>>

\* canvas "keydown" and "keyup": nothing for a repeat or an unmapped key, else
\* the input message is posted to the node's port.
KeyEvent(type, key, repeat) ==
  /\ node # 0
  /\ Len(toHost[node]) < MaxInputQueue
  /\ toHost' = [toHost EXCEPT ![node] =
                  IF (type = "keydown" /\ repeat) \/ input_mapping(key) = "undefined"
                  THEN @
                  ELSE Append(@, InputMsg(input_mapping(key),
                                          IF type = "keydown" THEN "down" ELSE "up"))]
  /\ UNCHANGED <<ctlVars, hostVars, toMain, audioObs, bootObs, dpadVars, storeVars, pageVars, relayVars>>

\* "pointerdown" and "pointerup" on buttonA, buttonB, buttonStart, buttonSelect.
ButtonEvent(button, type) ==
  /\ node # 0
  /\ Len(toHost[node]) < MaxInputQueue
  /\ toHost' = [toHost EXCEPT ![node] =
                  Append(@, InputMsg(button, IF type = "pointerdown" THEN "down" ELSE "up"))]
  /\ UNCHANGED <<ctlVars, hostVars, toMain, audioObs, bootObs, dpadVars, storeVars, pageVars, relayVars>>

\* ------------------------------------------------------------- visibility
VisibilityMsg(isVisible) ==
  Msg(IF isVisible THEN "enableMessages" ELSE "disableMessages", 0, Undefined)

\* Listeners that take the visible branch when the page is hidden.
VisibilityChange_Swapped ==
  /\ \A h \in 1..nHosts : Len(toHost[h]) < MaxQueue
  /\ visible' = ~visible
  /\ toHost' = [h \in Hosts |-> IF h <= nHosts
                                THEN Append(toHost[h], VisibilityMsg(~visible'))
                                ELSE toHost[h]]
  /\ UNCHANGED <<ctlVars, hostVars, toMain, audioObs, bootObs, dpadVars, storeVars,
                 relayVars>>

\* document "visibilitychange": the state has changed, and the listener that
\* each getAudioWorkletNode call added posts enableMessages or disableMessages
\* to its node's port. The model delivers while the queues are below their bound.
VisibilityChange ==
  /\ \A h \in 1..nHosts : Len(toHost[h]) < MaxQueue
  /\ visible' = ~visible
  /\ toHost' = [h \in Hosts |-> IF h <= nHosts
                                THEN Append(toHost[h], VisibilityMsg(visible'))
                                ELSE toHost[h]]
  /\ UNCHANGED <<ctlVars, hostVars, toMain, audioObs, bootObs, dpadVars, storeVars,
                 relayVars>>

\* -------------------------------------------------------------- network relay
\* What a WebSocket message event carries with binaryType "arraybuffer": a
\* string, or an ArrayBuffer (here of one byte, or empty).
Rooms == {"R"}
WsData ==
  {[kind |-> "text", text |-> r, bytes |-> <<>>] : r \in Rooms} \cup
  {[kind |-> "binary", text |-> "", bytes |-> b] : b \in {<<>>, <<7>>}}

\* roomDiv.textContent: `${room} (egg)`, getReadyRoomMessage(room), CLOSE_MESSAGE.
WaitingText(room) == [text |-> "waiting", room |-> room]
getReadyRoomMessage(room) == [text |-> "ready", room |-> room]
CLOSE_MESSAGE == [text |-> "closed", room |-> ""]

\* createRoomBtn "click", through the listener addNetwork added for node h:
\* new WebSocket(...), state = {type: "waitName"}.
CreateRoom(c, h) ==
  /\ ws[c].role = "none"
  /\ h \in 1..nHosts
  /\ ws' = [ws EXCEPT ![c] = [NoSocket EXCEPT !.role = "host", !.port = h,
                                              !.state = "waitName"]]
  /\ UNCHANGED <<ctlVars, hostVars, chanVars, audioObs, bootObs, dpadVars, storeVars, pageVars, roomDiv>>

\* joinRoomBtn "click": room = roomInput.value.trim(); new WebSocket(...).
JoinRoom(c, h, room) ==
  /\ ws[c].role = "none"
  /\ h \in 1..nHosts
  /\ ws' = [ws EXCEPT ![c] = [NoSocket EXCEPT !.role = "guest", !.port = h,
                                              !.room = room]]
  /\ UNCHANGED <<ctlVars, hostVars, chanVars, audioObs, bootObs, dpadVars, storeVars, pageVars, roomDiv>>

\* ws "open": the port listener that sends serial bytes is added; a guest
\* also shows the ready text.
WsOpen(c) ==
  /\ ws[c].role # "none" /\ ~ws[c].open /\ ~ws[c].closed
  /\ ws' = [ws EXCEPT ![c].open = TRUE]
  /\ roomDiv' = IF ws[c].role = "guest" THEN getReadyRoomMessage(ws[c].room) ELSE roomDiv
  /\ UNCHANGED <<ctlVars, hostVars, chanVars, audioObs, bootObs, dpadVars, storeVars, pageVars>>

\* The "done" case of a host and the whole listener of a guest: a message that
\* is not an ArrayBuffer throws TypeError, an empty one makes getUint8(0)
\* throw RangeError, else {type: "serial", byte} is posted to the port.
Forward(c, d) ==
  IF d.kind = "binary" /\ d.bytes # <<>>
  THEN /\ toHost' = [toHost EXCEPT ![ws[c].port] = Append(@, SerialMsg(d.bytes[1]))]
       /\ UNCHANGED <<ws, roomDiv>>
  ELSE /\ ws' = [ws EXCEPT ![c].failed = TRUE]
       /\ UNCHANGED <<toHost, roomDiv>>

\* A host listener whose "waitGuest" case accepts a binary message only.
HostMessage_PeerMustBeBinary(c, d) ==
  CASE ws[c].state = "waitName" ->
         IF d.kind # "text"
         THEN /\ ws' = [ws EXCEPT ![c].failed = TRUE]
              /\ UNCHANGED <<toHost, roomDiv>>
         ELSE /\ ws' = [ws EXCEPT ![c].state = "waitGuest", ![c].room = d.text]
              /\ roomDiv' = WaitingText(d.text)
              /\ UNCHANGED toHost
    [] ws[c].state = "waitGuest" ->
         IF d.kind # "binary"
         THEN /\ ws' = [ws EXCEPT ![c].failed = TRUE]
              /\ UNCHANGED <<toHost, roomDiv>>
         ELSE /\ ws' = [ws EXCEPT ![c].state = "done"]
              /\ roomDiv' = getReadyRoomMessage(ws[c].room)
              /\ UNCHANGED toHost
    [] ws[c].state = "done" -> Forward(c, d)

\* The host's "message" listener: switch (state.type).
HostMessage(c, d) ==
  CASE ws[c].state = "waitName" ->
         IF d.kind # "text"
         THEN /\ ws' = [ws EXCEPT ![c].failed = TRUE]
              /\ UNCHANGED <<toHost, roomDiv>>
         ELSE /\ ws' = [ws EXCEPT ![c].state = "waitGuest", ![c].room = d.text]
              /\ roomDiv' = WaitingText(d.text)
              /\ UNCHANGED toHost
    [] ws[c].state = "waitGuest" ->
         /\ ws' = [ws EXCEPT ![c].state = "done"]
         /\ roomDiv' = getReadyRoomMessage(ws[c].room)
         /\ UNCHANGED toHost
    [] ws[c].state = "done" -> Forward(c, d)

\* A "message" listener of a host that forwards from its first message on.
WsMessage_HostForwardsAtOnce(c, d) ==
  /\ ws[c].role # "none" /\ ws[c].open /\ ~ws[c].closed
  /\ Len(toHost[ws[c].port]) < MaxQueue
  /\ Forward(c, d)
  /\ UNCHANGED <<ctlVars, hostVars, toMain, audioObs, bootObs, dpadVars, storeVars, pageVars>>

\* A "message" listener whose exception also clears isNodeReady.
WsMessage_ViolationResetsReady(c, d) ==
  /\ ws[c].role # "none" /\ ws[c].open /\ ~ws[c].closed
  /\ Len(toHost[ws[c].port]) < MaxQueue
  /\ IF ws[c].role = "host" THEN HostMessage(c, d) ELSE Forward(c, d)
  /\ isNodeReady' = (isNodeReady /\ ~ws'[c].failed)
  /\ UNCHANGED <<node, notReadyRom, nSel, pc, romTitle, target, nHosts, fetching, flushing,
                 detached, store, imageData,
                 hostVars, toMain, audioObs, bootObs, dpadVars, storeVars, pageVars>>

\* ws "message" with data d, on an open connection; an exception thrown by
\* the listener is reported and leaves the socket and the listener as they
\* were. The model delivers while the port's queue is below its bound.
WsMessage(c, d) ==
  /\ ws[c].role # "none" /\ ws[c].open /\ ~ws[c].closed
  /\ Len(toHost[ws[c].port]) < MaxQueue
  /\ IF ws[c].role = "host" THEN HostMessage(c, d) ELSE Forward(c, d)
  /\ UNCHANGED <<ctlVars, hostVars, toMain, audioObs, bootObs, dpadVars, storeVars, pageVars>>

\* ws "close": the server or the network ends the connection.
WsClose(c) ==
  /\ ws[c].role # "none" /\ ~ws[c].closed
  /\ ws' = [ws EXCEPT ![c].closed = TRUE]
  /\ roomDiv' = CLOSE_MESSAGE
  /\ UNCHANGED <<ctlVars, hostVars, chanVars, audioObs, bootObs, dpadVars, storeVars, pageVars>>

\* The serial bytes a Host may produce, and the serial messages in a queue.
SerialBytes == {7, 9}
SerialCount(q) == Len(SelectSeq(q, LAMBDA m : m.type = "serial"))

\* The Host produces a serial-link byte and posts {type: "serial", byte} on
\* its port, while the model's bounds allow.
HostSerial(h, byte) ==
  /\ constructed[h] /\ emulator[h]
  /\ Len(toMain[h]) < MaxQueue
  /\ \A c \in Conns : Len(ws[c].sent) + SerialCount(toMain[h]) < MaxSent
  /\ toMain' = [toMain EXCEPT ![h] = Append(@, SerialMsg(byte))]
  /\ UNCHANGED <<ctlVars, hostVars, toHost, audioObs, bootObs, dpadVars, storeVars, pageVars,
                 relayVars>>

\* ------------------------------------------------------- persistence adapter
\* A waitRequest that resolves on the error event as well.
waitRequest_ResolvesOnError(ok) == "resolved"

\* waitRequest: resolve() on "success", reject(request.error) on "error".
waitRequest(ok) == IF ok THEN "resolved" ELSE "rejected"

\* getSave(t) or writeSave(t, b) is called and runs up to its first await that
\* needs an event: getDatabase() returns the cached connection, after which the
\* transaction's request is made, or it calls indexedDB.open and awaits it.
StartCall(c, op, t, b) ==
  /\ calls[c].pc = "idle"
  /\ \A d \in Calls : d < c => calls[d].pc # "idle"
  /\ IF database # 0
     THEN /\ calls' = [calls EXCEPT ![c] = [IdleCall EXCEPT !.op = op, !.title = t, !.blob = b,
                                                           !.pc = "request", !.db = database]]
          /\ UNCHANGED nOpens
     ELSE /\ nOpens' = nOpens + 1
          /\ calls' = [calls EXCEPT ![c] = [IdleCall EXCEPT !.op = op, !.title = t, !.blob = b,
                                                           !.pc = "open", !.db = nOpens + 1]]
  /\ UNCHANGED <<database, ctlVars, hostVars, chanVars, audioObs, bootObs, dpadVars,
                 relayVars, pageVars>>

\* The open request of call c ends: await waitRequest(request); database =
\* request.result; then the call makes its transaction's request.
OpenDone(c, ok) ==
  /\ calls[c].pc = "open"
  /\ IF waitRequest(ok) = "resolved"
     THEN /\ database' = calls[c].db
          /\ calls' = [calls EXCEPT ![c].pc = "request",
                                    ![c].failed = IF ok THEN "none" ELSE "open"]
     ELSE /\ calls' = [calls EXCEPT ![c].pc = "error", ![c].failed = "open"]
          /\ UNCHANGED database
  /\ UNCHANGED <<nOpens, ctlVars, hostVars, chanVars, audioObs, bootObs, dpadVars,
                 relayVars, pageVars>>

\* The get or put request of call c ends: a put that succeeded has stored the
\* buffer; getSave returns the result or throws on an unknown object.
RequestDone(c, ok) ==
  /\ calls[c].pc = "request"
  /\ store' = IF ok /\ calls[c].op = "writeSave"
              THEN writeSave(calls[c].title, calls[c].blob) ELSE store
  /\ LET failed == IF ok THEN calls[c].failed ELSE "request"
         r == getSave(calls[c].title)
     IN IF waitRequest(ok) = "rejected" \/ (calls[c].op = "getSave" /\ ~r.ok)
        THEN calls' = [calls EXCEPT ![c].pc = "error", ![c].failed = failed]
        ELSE calls' = [calls EXCEPT ![c].pc = "done", ![c].failed = failed,
                                    ![c].value = IF calls[c].op = "getSave"
                                                 THEN r.value ELSE Undefined]
  /\ UNCHANGED <<database, nOpens, node, isNodeReady, notReadyRom, nSel, pc, romTitle,
                 target, nHosts, fetching, flushing, detached, imageData,
                 hostVars, chanVars, audioObs, bootObs, dpadVars, relayVars, pageVars>>

\* ------------------------------------------------------------ specifications
\* The page as loaded: no node, nothing selected. The object store holds what
\* earlier sessions of the page wrote.
StoredValues == {Undefined} \cup {[kind |-> "Uint8Array", blob |-> b] : b \in Blobs}

PageLoadedAt(outputChannels, rate) ==
  /\ node = 0 /\ isNodeReady = FALSE /\ notReadyRom = 0
  /\ nSel = 0 /\ nHosts = 0
  /\ pc = [s \in Selections |-> "idle"]
  /\ romTitle = [s \in Selections |-> InvalidTitle]
  /\ target = [s \in Selections |-> 0]
  /\ fetching = [h \in Hosts |-> 0]
  /\ flushing = [h \in Hosts |-> 0]
  /\ detached = {}
  /\ store \in [Titles -> StoredValues]
  /\ imageData = InitialImage
  /\ constructed = [h \in Hosts |-> FALSE]
  /\ emulator = [h \in Hosts |-> FALSE]
  /\ loadedRom = [h \in Hosts |-> 0]
  /\ poor_mans_time = [h \in Hosts |-> 0]
  /\ sampleRate = rate
  /\ channels = outputChannels
  /\ pressed = [h \in Hosts |-> NonePressed]
  /\ toHost = [h \in Hosts |-> <<>>]
  /\ toMain = [h \in Hosts |-> <<>>]
  /\ lastCall = NoCall /\ saveQuery = "none"
  /\ sinceWrap = [h \in Hosts |-> 0]
  /\ posts = {} /\ reused = {} /\ readyFrom = {} /\ romPosts = {} /\ romNoEngine = {} /\ inputNoEngine = {}
  /\ romLoads = {}
  /\ selEarly = {} /\ lastEarly = 0
  /\ needEngineSent = [h \in Hosts |-> 0]
  /\ needEngineSeen = [h \in Hosts |-> 0]
  /\ payloadSent = [h \in Hosts |-> 0]
  /\ payloadSeen = [h \in Hosts |-> 0]
  /\ readySent = [h \in Hosts |-> 0]
  /\ dpadState = AllUp /\ isPointerDown = FALSE
  /\ dpadLog = <<>> /\ dpadEvents = <<>>
  /\ ws = [c \in Conns |-> NoSocket] /\ roomDiv = NoText
  /\ database = 0 /\ nOpens = 0 /\ calls = [c \in Calls |-> IdleCall]
  /\ visible = TRUE

PageLoaded(outputChannels) == PageLoadedAt(outputChannels, ModelSampleRate)

Init == PageLoaded(OutputChannelCount)

\* A page session with a running Host: one ROM was selected before ready,
\* flushed at ready and loaded; every queue is empty.
RunningWith(queue) ==
  /\ node = 1 /\ isNodeReady = TRUE /\ notReadyRom = 1
  /\ nSel = 1 /\ nHosts = 1
  /\ pc = [s \in Selections |-> IF s = 1 THEN "done" ELSE "idle"]
  /\ \E t \in Titles : romTitle = [s \in Selections |-> IF s = 1 THEN t ELSE InvalidTitle]
  /\ target = [s \in Selections |-> 0]
  /\ fetching = [h \in Hosts |-> 0]
  /\ flushing = [h \in Hosts |-> 0]
  /\ detached = {1}
  /\ store = [t \in Titles |-> Undefined]
  /\ imageData = InitialImage
  /\ constructed = [h \in Hosts |-> h = 1]
  /\ emulator = [h \in Hosts |-> h = 1]
  /\ loadedRom = [h \in Hosts |-> IF h = 1 THEN 1 ELSE 0]
  /\ poor_mans_time = [h \in Hosts |-> 0]
  /\ channels = OutputChannelCount
  /\ pressed = [h \in Hosts |-> NonePressed]
  /\ toHost = [h \in Hosts |-> <<>>]
  /\ toMain = queue
  /\ lastCall = NoCall /\ saveQuery = "none"
  /\ sinceWrap = [h \in Hosts |-> 0]
  /\ posts = {[type |-> "wasm", transfer |-> TRUE], [type |-> "rom", transfer |-> TRUE]}
  /\ reused = {} /\ readyFrom = {1} /\ romNoEngine = {} /\ inputNoEngine = {} /\ romLoads = {1}
  /\ romPosts = {[rom |-> 1, host |-> 1, early |-> FALSE, saveLookedUp |-> TRUE]}
  /\ selEarly = {1} /\ lastEarly = 1
  /\ needEngineSent = [h \in Hosts |-> IF h = 1 THEN 1 ELSE 0]
  /\ needEngineSeen = [h \in Hosts |-> IF h = 1 THEN 1 ELSE 0]
  /\ payloadSent = [h \in Hosts |-> IF h = 1 THEN 1 ELSE 0]
  /\ payloadSeen = [h \in Hosts |-> IF h = 1 THEN 1 ELSE 0]
  /\ readySent = [h \in Hosts |-> IF h = 1 THEN 1 ELSE 0]
  /\ dpadState = AllUp /\ isPointerDown = FALSE
  /\ dpadLog = <<>> /\ dpadEvents = <<>>
  /\ ws = [c \in Conns |-> NoSocket] /\ roomDiv = NoText
  /\ database = 0 /\ nOpens = 0 /\ calls = [c \in Calls |-> IdleCall]
  /\ visible = TRUE

Running == RunningWith([h \in Hosts |-> <<>>])

\* The sample rates of the autosave specification.
ClaimedSampleRates == {44100, 48000}
CheckedSampleRates == ClaimedSampleRates \cup {8000}

AutosaveInit == Running /\ sampleRate \in CheckedSampleRates

\* The dpad's listeners exist once getAudioWorkletNode has called addButtons.
DpadInit == Running /\ sampleRate = ModelSampleRate

\* The getSave calls in flight: of change handlers and of ready handlers.
PendingLookups ==
  {[site |-> "change", of |-> s] : s \in {x \in Selections : pc[x] = "save"}} \cup
  {[site |-> "ready", of |-> h] : h \in {x \in Hosts : flushing[x] > 0}}

\* A getSave promise resolves and the handler awaiting it continues.
GetSaveDone(k) == IF k.site = "change" THEN SaveDone(k.of) ELSE FlushDone(k.of)

ControllerStep ==
  \/ \E s \in Selections : ReadDone(s)
  \/ \E s \in Selections : ModuleDone(s)
  \/ \E k \in PendingLookups : GetSaveDone(k)
  \/ \E h \in Hosts : MainHandle(h)
  \/ \E h \in Hosts : FetchDone(h)

HostStep ==
  \/ \E h \in Hosts : HostConstruct(h)
  \/ \E h \in Hosts : HostHandle(h)

\* Controller and Hosts without audio quanta.
BootSelect(t) == nSel < MaxSelections /\ SelectRom(t)

BootNext ==
  \/ \E t \in Titles \cup {InvalidTitle} : BootSelect(t)
  \/ ControllerStep
  \/ HostStep

SpecBoot == Init /\ [][BootNext]_vars

\* Controller and Hosts with audio quanta.
SessionSelect(t) == nSel < MaxSessionSelections /\ SelectRom(t)

SessionNext ==
  \/ \E t \in Titles \cup {InvalidTitle} : SessionSelect(t)
  \/ ControllerStep
  \/ HostStep
  \/ \E h \in Hosts : Quantum(h)

SpecSession == Init /\ [][SessionNext]_vars

\* The same session on a node whose output has fewer than two channels.
MonoInit == \E n \in 0..(OutputChannelCount - 1) : PageLoaded(n)

MonoNext ==
  \/ BootNext
  \/ \E h \in Hosts : Quantum(h)

SpecMono == MonoInit /\ [][MonoNext]_vars

\* The first ROM selection of a page at a real sample rate, with audio quanta
\* before and after the Host has its engine.
CounterInit == PageLoadedAt(OutputChannelCount, 8000)

FirstSelect(t) == nSel = 0 /\ SelectRom(t)

CounterNext ==
  \/ \E t \in Titles \cup {InvalidTitle} : FirstSelect(t)
  \/ ControllerStep
  \/ HostStep
  \/ \E h \in Hosts : Quantum(h)

SpecCounter == CounterInit /\ [][CounterNext]_vars

\* A running session that autosaves while further ROMs are selected.
SaveInit == Running /\ sampleRate = ModelSampleRate

SaveNext ==
  \/ \E t \in Titles \cup {InvalidTitle} : BootSelect(t)
  \/ \E s \in Selections : ReadDone(s)
  \/ \E k \in PendingLookups : GetSaveDone(k)
  \/ \E h \in Hosts : MainHandle(h)
  \/ \E h \in Hosts : HostHandle(h)
  \/ \E h \in Hosts : Quantum(h)

SpecSave == SaveInit /\ [][SaveNext]_vars

\* The persistence adapter under getSave and writeSave calls whose requests
\* succeed or fail.
StoreInit == Running /\ sampleRate = ModelSampleRate

StoreNext ==
  \/ \E c \in Calls, op \in {"getSave", "writeSave"}, t \in Titles, b \in Blobs :
       StartCall(c, op, t, b)
  \/ \E c \in Calls, ok \in BOOLEAN : OpenDone(c, ok)
  \/ \E c \in Calls, ok \in BOOLEAN : RequestDone(c, ok)

SpecStore == StoreInit /\ [][StoreNext]_vars

\* A running Host at a real sample rate: quanta, and the Controller handling
\* what they post.
AutosaveNext ==
  \/ \E h \in Hosts : Quantum(h)
  \/ \E h \in Hosts : MainHandle(h)

SpecAutosave == AutosaveInit /\ [][AutosaveNext]_vars

\* The dpad under pointer events.
DpadNext ==
  \/ \E x \in Coords, y \in Coords : PointerDown(x, y)
  \/ \E x \in Coords, y \in Coords : PointerMove(x, y)
  \/ \E type \in {"pointerup", "pointercancel"} : PointerEnd(type)

SpecDpad == DpadInit /\ [][DpadNext]_vars

\* The dpad of gebeh-web/ts/buttons.ts under pointer events. A second
\* pointerdown with no pointerup between is a second finger, or a pointer
\* that was lifted outside the element.
ButtonsDpadNext ==
  \/ \E x \in Coords, y \in Coords : DpadPointerDown(x, y)
  \/ DpadPointerUp

SpecButtonsDpad == DpadInit /\ [][ButtonsDpadNext]_vars

\* The Controller handling one frame message. The frames: every byte value at
\* every entry of the buffer, the other entries holding one of ByteSamples
\* (0b00011011 and 0b11100100 hold the four 2-bit values in both orders).
ByteSamples == {0, 27, 228}
Frames ==
  {[i \in 1..ImagePixels |-> IF i = at THEN b ELSE c] :
     at \in 1..ImagePixels, b \in 0..255, c \in ByteSamples}

FrameInit ==
  /\ \E f \in Frames :
       RunningWith([h \in Hosts |-> IF h = 1 THEN <<FrameMsg(f)>> ELSE <<>>])
  /\ sampleRate = ModelSampleRate

FrameNext == \E h \in Hosts : MainHandle(h)

SpecFrame == FrameInit /\ [][FrameNext]_vars

\* The relay connections of a running session.
RelayInit == Running /\ sampleRate = ModelSampleRate

RelayNext ==
  \/ \E c \in Conns, h \in Hosts : CreateRoom(c, h)
  \/ \E c \in Conns, h \in Hosts, room \in Rooms : JoinRoom(c, h, room)
  \/ \E c \in Conns : WsOpen(c)
  \/ \E c \in Conns, d \in WsData : WsMessage(c, d)
  \/ \E c \in Conns : WsClose(c)
  \/ \E h \in Hosts : HostHandle(h)

SpecRelay == RelayInit /\ [][RelayNext]_vars

\* The relay with a Host that produces serial bytes; the connections are
\* numbered in the order of the clicks that made them.
Clicked == {c \in Conns : ws[c].role # "none"}
NextClick(c) ==
  /\ Cardinality(Clicked) < MaxSerialConns
  /\ \A x \in Conns : x < c => x \in Clicked

SerialNext ==
  \/ \E c \in Conns, h \in Hosts : NextClick(c) /\ CreateRoom(c, h)
  \/ \E c \in Conns, h \in Hosts, room \in Rooms : NextClick(c) /\ JoinRoom(c, h, room)
  \/ \E c \in Conns : WsOpen(c)
  \/ \E c \in Conns, d \in WsData : WsMessage(c, d)
  \/ \E c \in Conns : WsClose(c)
  \/ \E h \in Hosts : HostHandle(h)
  \/ \E h \in Hosts, byte \in SerialBytes : HostSerial(h, byte)
  \/ \E h \in Hosts : MainHandle(h)

SpecSerial == RelayInit /\ [][SerialNext]_vars

\* The relay of a session whose Host pumps audio and whose Controller handles
\* the Host's messages.
FaultNext ==
  \/ \E c \in Conns, h \in Hosts : NextClick(c) /\ CreateRoom(c, h)
  \/ \E c \in Conns, h \in Hosts, room \in Rooms : NextClick(c) /\ JoinRoom(c, h, room)
  \/ \E c \in Conns : WsOpen(c)
  \/ \E c \in Conns, d \in WsData : WsMessage(c, d)
  \/ \E h \in Hosts : HostHandle(h)
  \/ \E h \in Hosts : MainHandle(h)
  \/ \E h \in Hosts : Quantum(h)

SpecFault == RelayInit /\ [][FaultNext]_vars

\* The page of a running session going hidden and visible.
VisibleNext ==
  \/ VisibilityChange
  \/ \E h \in Hosts : HostHandle(h)
  \/ \E h \in Hosts : MainHandle(h)
  \/ \E h \in Hosts : Quantum(h)

SpecVisible == RelayInit /\ [][VisibleNext]_vars

\* The A button used while the current node has no engine yet.
EarlyButton(type) == node # 0 /\ ~emulator[node] /\ ButtonEvent("a", type)

\* The page from its load, with ROMs of valid titles selected and the A
\* button used during the start-up.
EarlyInputNext ==
  \/ \E t \in Titles : BootSelect(t)
  \/ ControllerStep
  \/ HostStep
  \/ \E type \in {"pointerdown", "pointerup"} : EarlyButton(type)

SpecEarlyInput == Init /\ [][EarlyInputNext]_vars

\* Keys and buttons of a running session, and the Host handling their messages.
InputInit == Running /\ sampleRate = ModelSampleRate

InputNext ==
  \/ \E type \in {"keydown", "keyup"}, key \in Keys, repeat \in BOOLEAN :
       KeyEvent(type, key, repeat)
  \/ \E button \in {"a", "b", "start", "select"}, type \in {"pointerdown", "pointerup"} :
       ButtonEvent(button, type)
  \/ \E h \in Hosts : HostHandle(h)

SpecInput == InputInit /\ [][InputNext]_vars

\* The keyboard alone, and the Host handling its messages.
KeysNext ==
  \/ \E type \in {"keydown", "keyup"}, key \in Keys, repeat \in BOOLEAN :
       KeyEvent(type, key, repeat)
  \/ \E h \in Hosts : HostHandle(h)

SpecKeys == InputInit /\ [][KeysNext]_vars

\* ---------------------------------------------------------------- claims
\* C1: the Controller never posts a rom message to a Host whose ready it has
\* not yet handled, and no Host handles a rom message while it has no engine.
C1_NoRomBeforeReady ==
  /\ \A p \in romPosts : ~p.early
  /\ romNoEngine = {} /\ inputNoEngine = {}

\* C2: per Host, needEngine ("wasm") is emitted exactly once, by the
\* constructor; the Controller has sent no more engine payloads than it has
\* seen requests; ready is emitted at most once, only after the payload was
\* received and the engine instantiated; an engine, once set, stays set.
HandshakeOrder(h) ==
  /\ needEngineSent[h] = (IF constructed[h] THEN 1 ELSE 0)
  /\ payloadSent[h] + fetching[h] <= needEngineSeen[h]
  /\ needEngineSeen[h] <= needEngineSent[h]
  /\ readySent[h] <= 1
  /\ readySent[h] <= payloadSeen[h]
  /\ payloadSeen[h] <= payloadSent[h]
  /\ readySent[h] > 0 => emulator[h]

C2_Handshake ==
  /\ [](\A h \in Hosts : HandshakeOrder(h))
  /\ [][\A h \in Hosts : emulator[h] => emulator'[h]]_vars

\* C2's case: a Host went through the whole handshake.
C2_Witness ==
  \E h \in Hosts : readySent[h] = 1 /\ emulator[h] /\ h \in readyFrom

\* C3: a ROM selected before ready is sent to a Host only if it is the last
\* one selected before ready, and with the save stored for its title.
C3_OnlyLastSelection ==
  \A p \in romPosts :
    /\ p.rom \in selEarly => p.rom = lastEarly
    /\ p.saveLookedUp

\* Nothing is in flight: every handler has ended, every queue is empty.
Quiescent ==
  /\ \A s \in Selections : pc[s] \in {"idle", "done", "failed"}
  /\ \A h \in Hosts :
       /\ fetching[h] = 0 /\ flushing[h] = 0
       /\ toHost[h] = <<>> /\ toMain[h] = <<>>
       /\ h <= nHosts => constructed[h]

\* The file reads, title decodings and save lookups of the run all succeed.
AllSucceed ==
  \A s \in 1..nSel : romTitle[s] \in Titles /\ getSave(romTitle[s]).ok

\* C4, as the final result of a run: once nothing is in flight, the final
\* selection has been posted and the engine's load called with it, and a ROM
\* in the pending slot after ready has been sent.
C4_FinalSelectionLoaded ==
  (Quiescent /\ nSel > 0 /\ AllSucceed) =>
    /\ \E p \in romPosts : p.rom = nSel
    /\ nSel \in romLoads
    /\ (isNodeReady /\ notReadyRom # 0) => notReadyRom \in detached

\* C5: a process() call on a Host without engine leaves every output sample
\* 0, returns true, posts no message and changes nothing of the Host.
Silence == [result |-> "true", left |-> 0, right |-> 0]

C5_SilenceWithoutEngine ==
  [][\A h \in Hosts :
       (process(h) /\ ~emulator[h]) =>
         /\ lastCall' = Silence
         /\ toMain' = toMain /\ posts' = posts
         /\ poor_mans_time' = poor_mans_time]_vars

\* C5's case: a quantum has run and no Host has an engine yet.
C5_Witness ==
  /\ lastCall = Silence
  /\ \E h \in Hosts : constructed[h]
  /\ \A h \in Hosts : ~emulator[h]

\* C6: whenever a Host exists its process() can run, as one step, whatever
\* the control context has pending.
C6_QuantumNeverWaits ==
  \A h \in Hosts : constructed[h] => ENABLED process(h)

\* C6's case: a quantum has completed on a Host that still awaits its engine
\* while the fetch of the engine is in flight.
C6_Witness ==
  \E h \in Hosts :
    /\ constructed[h] /\ ~emulator[h] /\ fetching[h] > 0
    /\ lastCall.result = "true"
    /\ ENABLED process(h)

WrapFrames(h) == sinceWrap[h] + QuantumFrames
Wraps(h) == sinceWrap[h] # 0 /\ sinceWrap'[h] = 0

\* C8 as claimed: at 44100 and at 48000, between two wrap-arounds exactly
\* 5 * sampleRate audio frames are driven.
C8_ExactPeriod ==
  [][\A h \in Hosts : (Wraps(h) /\ sampleRate \in ClaimedSampleRates) =>
       WrapFrames(h) = AutosaveSeconds * sampleRate]_vars

\* C8 amended: the frames between two wrap-arounds differ from 5 * sampleRate
\* by at most half a quantum: 240000 at 48000 (exact), 220544 at 44100 (44
\* more than 220500), 40064 at 8000.
Distance(a, b) == IF a >= b THEN a - b ELSE b - a

C8_PeriodWithinHalfQuantum ==
  [][\A h \in Hosts : Wraps(h) =>
       /\ 2 * Distance(WrapFrames(h), AutosaveSeconds * sampleRate) <= QuantumFrames
       /\ sampleRate = 48000 => WrapFrames(h) = 240000
       /\ sampleRate = 44100 => WrapFrames(h) = 220544
       /\ sampleRate = 8000 => WrapFrames(h) = 40064]_vars

\* C8's case: at 44100 the counter has just wrapped.
C8_Witness ==
  /\ sampleRate = 44100
  /\ lastCall.result = "true"
  /\ poor_mans_time[1] = 0 /\ sinceWrap[1] = 0

\* C9: pointerdown in the zone up, a move to the zone right, then release.
DragUpToRight ==
  <<[type |-> "pointerdown", inside |-> TRUE, zone |-> [AllUp EXCEPT !.up = TRUE]],
    [type |-> "pointermove", inside |-> TRUE, zone |-> [AllUp EXCEPT !.right = TRUE]],
    [type |-> "pointerup", inside |-> FALSE, zone |-> AllUp]>>

\* C9: that drag posts up-down, up-up, right-down, right-up, in this order.
C9_DragMessages ==
  dpadEvents = DragUpToRight =>
    dpadLog = <<[button |-> "up", event |-> "down"], [button |-> "up", event |-> "up"],
                [button |-> "right", event |-> "down"], [button |-> "right", event |-> "up"]>>

\* The events posted for direction d, in order.
EventsOf(log, d) == SelectSeq(log, LAMBDA m : m.button = d)

\* C10: per direction the messages alternate down, up, down, ... and
\* dpadState tells whether the last one was down; each event posts one
\* message for every direction whose dpadState flips and none for the others.
Debounced(d) ==
  LET e == EventsOf(dpadLog, d) IN
  /\ \A i \in 1..Len(e) : e[i].event = (IF i % 2 = 1 THEN "down" ELSE "up")
  /\ dpadState[d] = (Len(e) % 2 = 1)

C10_Debounce ==
  /\ [](\A i \in 1..Len(Buttons) : Debounced(Buttons[i]))
  /\ [][\A i \in 1..Len(Buttons) :
          Len(EventsOf(dpadLog', Buttons[i])) - Len(EventsOf(dpadLog, Buttons[i]))
            = (IF dpadState'[Buttons[i]] # dpadState[Buttons[i]] THEN 1 ELSE 0)]_vars

\* C10's case: a direction was pressed, released and pressed again.
C10_Witness ==
  /\ Len(EventsOf(dpadLog, "up")) = 3
  /\ dpadState.up

\* The Controller handles a frame message of Host h on this step.
HandlesFrame(h) == MainHandle(h) /\ Head(toMain[h]).type = "frame"
\* The pixels of the image, from 0, and the 2-bit value of pixel p in buffer b.
Pixels == 0..(ImagePixels - 1)
PairOf(b, p) == (b[(p \div 4) + 1] \div (2 ^ (6 - 2 * (p % 4)))) % 4
ZeroFrame == [i \in 1..ImagePixels |-> 0]
Luminance == <<255, 170, 85, 0>>

\* C11: a frame of zero bytes decodes to an image whose every byte is 255,
\* and the 2-bit values 0, 1, 2, 3 decode to R = G = B = 255, 170, 85, 0.
C11_ZeroIsWhite ==
  [][\A h \in Hosts : HandlesFrame(h) =>
       LET b == Head(toMain[h]).buffer IN
       /\ b = ZeroFrame => \A j \in 1..Len(imageData') : imageData'[j] = 255
       /\ \A p \in Pixels : \A c \in 1..3 :
            imageData'[4 * p + c] = Luminance[PairOf(b, p) + 1]]_vars

C13_SaveRoundTrip ==
  /\ [][\A h \in Hosts, t \in Titles, b \in Blobs :
          (/\ MainHandle(h)
           /\ Head(toMain[h]).type = "save"
           /\ romTitle[Head(toMain[h]).rom] = t
           /\ Head(toMain[h]).save.blob = b) =>
            /\ getSave(t)'.ok
            /\ getSave(t)'.value.blob = b
            /\ \A u \in Titles \ {t} : store'[u] = store[u]]_vars
  /\ [](\A t \in Titles :
          store[t] = Undefined => getSave(t) = [ok |-> TRUE, value |-> Undefined])

\* The relay state of a connection, in the words of the design.
RelayPhase(w) ==
  CASE w.role = "guest" -> IF w.open THEN "Relaying" ELSE "Connecting"
    [] w.role = "host" /\ w.state = "waitName" -> "WaitingForRoomName"
    [] w.role = "host" /\ w.state = "waitGuest" -> "WaitingForPeer"
    [] w.role = "host" /\ w.state = "done" -> "Relaying"
    [] OTHER -> "None"
PhaseRank(p) ==
  CASE p \in {"None", "Connecting", "WaitingForRoomName"} -> 0
    [] p = "WaitingForPeer" -> 1
    [] p = "Relaying" -> 2

\* C14: as host the first text message sets the room and moves
\* WaitingForRoomName to WaitingForPeer, any message in WaitingForPeer moves
\* to Relaying; a guest is Relaying once open; the state never moves back and
\* Relaying is kept.
C14_RelayStates ==
  [][\A c \in Conns :
       /\ \A d \in WsData :
            (WsMessage(c, d) /\ ws[c].role = "host") =>
              /\ (RelayPhase(ws[c]) = "WaitingForRoomName" /\ d.kind = "text") =>
                   /\ RelayPhase(ws'[c]) = "WaitingForPeer"
                   /\ ws'[c].room = d.text
              /\ RelayPhase(ws[c]) = "WaitingForPeer" => RelayPhase(ws'[c]) = "Relaying"
       /\ (WsOpen(c) /\ ws[c].role = "guest") => RelayPhase(ws'[c]) = "Relaying"
       /\ ws[c].role # "none" =>
            PhaseRank(RelayPhase(ws'[c])) >= PhaseRank(RelayPhase(ws[c]))
       /\ RelayPhase(ws[c]) = "Relaying" => RelayPhase(ws'[c]) = "Relaying"]_vars

\* C14's case: a host has been named and joined, a guest has opened.
C14_Witness ==
  \E c \in Conns, g \in Conns :
    /\ ws[c].role = "host" /\ ws[c].state = "done" /\ ws[c].room \in Rooms
    /\ ws[g].role = "guest" /\ ws[g].open

\* A message of the wrong type for the connection's state.
Malformed(w, d) ==
  \/ RelayPhase(w) = "WaitingForRoomName" /\ d.kind # "text"
  \/ RelayPhase(w) = "Relaying" /\ d.kind # "binary"

\* C15: a malformed message fails the connection and closes it, leaves the
\* relay state and the port as they were; after a failure no message on that
\* connection changes anything.
C15_MalformedIsFatal ==
  [][\A c \in Conns, d \in WsData :
       WsMessage(c, d) =>
         /\ Malformed(ws[c], d) =>
              /\ ws'[c].failed /\ ws'[c].closed
              /\ ws'[c].state = ws[c].state
              /\ toHost' = toHost
         /\ ws[c].failed => (ws' = ws /\ toHost' = toHost /\ roomDiv' = roomDiv)]_vars

C16_NoStereoThrows ==
  [][\A h \in Hosts :
       (process(h) /\ channels < 2) =>
         /\ lastCall' = [result |-> "throw", left |-> 0, right |-> 0]
         /\ toMain' = toMain /\ posts' = posts
         /\ poor_mans_time' = poor_mans_time
         /\ saveQuery' = "none"]_vars

\* C16's case: a call has thrown on a Host that has its engine and a ROM.
C16_Witness ==
  /\ channels < 2
  /\ lastCall.result = "throw"
  /\ \E h \in Hosts : emulator[h] /\ loadedRom[h] # 0 /\ ENABLED process(h)

\* C17: a ROM whose title does not decode is never posted to a Host, neither
\* by the change handler nor by the ready handler, and no engine loads it.
C17_InvalidTitleNeverSent ==
  /\ \A p \in romPosts : romTitle[p.rom] # InvalidTitle
  /\ \A r \in romLoads : romTitle[r] # InvalidTitle
  /\ \A h \in Hosts :
       /\ loadedRom[h] # 0 => romTitle[loadedRom[h]] # InvalidTitle
       /\ \A i \in 1..Len(toHost[h]) :
            toHost[h][i].type = "rom" => romTitle[toHost[h][i].rom] # InvalidTitle

\* C17's case: ready has been handled with such a ROM pending, and another
\* one was selected after ready.
C17_Witness ==
  /\ isNodeReady /\ readyFrom # {}
  /\ notReadyRom # 0 /\ romTitle[notReadyRom] = InvalidTitle
  /\ \E s \in 1..nSel : s # notReadyRom /\ pc[s] = "failed" /\ romTitle[s] = InvalidTitle

\* C19: the pending slot does not hold a ROM that has been sent, and the
\* Controller never reads a ROM buffer it has transferred.
C19_PendingSlotCleared ==
  /\ notReadyRom \notin {p.rom : p \in romPosts}
  /\ "rom" \notin reused

\* The save messages in a queue.
SaveCount(q) == Len(SelectSeq(q, LAMBDA m : m.type = "save"))

\* C20: a driven quantum asks get_save exactly when the counter wraps to 0,
\* which is every period-th quantum and not the first; it then posts one save
\* message with the RAM and the title when a save is present, none when it is
\* absent; any other quantum posts no save message.
C20_SaveOnlyAtWrap ==
  [][\A h \in Hosts :
       (process(h) /\ emulator[h]) =>
         LET added == SaveCount(toMain'[h]) - SaveCount(toMain[h])
             last == toMain'[h][Len(toMain'[h])]
         IN /\ (saveQuery' # "none") = (poor_mans_time'[h] = 0)
            /\ (poor_mans_time'[h] = 0) =
                 (sinceWrap[h] + QuantumFrames = AutosavePeriod(sampleRate) * QuantumFrames)
            /\ poor_mans_time'[h] = 0 => sinceWrap[h] > 0
            /\ added = (IF saveQuery' = "present" THEN 1 ELSE 0)
            /\ added = 1 =>
                 /\ last.type = "save" /\ last.save.kind = "Uint8Array"
                 /\ last.save.blob \in Blobs /\ last.rom = loadedRom[h]]_vars

\* C20's case: the counter has wrapped with a save present and the save
\* message is in the port.
C20_Witness ==
  /\ saveQuery = "present"
  /\ poor_mans_time[1] = 0
  /\ toMain[1] # <<>> /\ toMain[1][Len(toMain[1])].type = "save"

\* C21 as stated: every process() call advances the autosave counter by one,
\* modulo the period.
C21_AdvancesEveryQuantum ==
  [][\A h \in Hosts :
       process(h) =>
         poor_mans_time'[h] = (poor_mans_time[h] + 1) % AutosavePeriod(sampleRate)]_vars

\* C21 amended: a process() call that drives the engine advances the counter
\* by one, wrapping to 0 at the period; a call that ends before driving (no
\* engine, no stereo) leaves it; no other step changes it; and it is always
\* within 0 .. period - 1.
C21_AdvancesEveryDrivenQuantum ==
  /\ [](\A h \in Hosts :
          poor_mans_time[h] >= 0 /\ poor_mans_time[h] < AutosavePeriod(sampleRate))
  /\ [][\A h \in Hosts :
          IF process(h)
          THEN poor_mans_time'[h] =
                 (IF emulator[h] /\ channels >= 2
                  THEN (poor_mans_time[h] + 1) % AutosavePeriod(sampleRate)
                  ELSE poor_mans_time[h])
          ELSE poor_mans_time'[h] = poor_mans_time[h]]_vars

\* C21's case: quanta have driven the counter to the last value before the
\* wrap.
C21_Witness ==
  /\ AutosavePeriod(sampleRate) >= 2
  /\ \E h \in Hosts :
       /\ emulator[h]
       /\ poor_mans_time[h] = AutosavePeriod(sampleRate) - 1

\* C22: handling a save message stores its RAM under its title, the last
\* message handled deciding; a later selection of a ROM with that title posts
\* a rom message whose save is the stored value, absent when nothing is stored.
C22_StoredSaveIsSent ==
  /\ [][\A h \in Hosts, t \in Titles, b \in Blobs :
          (/\ MainHandle(h)
           /\ Head(toMain[h]).type = "save"
           /\ romTitle[Head(toMain[h]).rom] = t
           /\ Head(toMain[h]).save.blob = b) =>
            store'[t].blob = b]_vars
  /\ [][\A s \in Selections, t \in Titles :
          (SaveDone(s) /\ romTitle[s] = t) =>
            /\ pc'[s] = "done"
            /\ toHost'[target[s]] = Append(toHost[target[s]], Msg("rom", s, store[t]))]_vars

\* C23: while no request fails, indexedDB.open is called at most once and
\* every getSave and writeSave call uses the one connection it produced.
C23_SingleStoreInstance ==
  (\A c \in Calls : calls[c].failed = "none") =>
    /\ nOpens <= 1
    /\ \A c \in Calls : calls[c].db \in {0, 1}

\* C24: a call whose open, get or put request failed ends with an error: it
\* is never finished with a value or with success, it does not go on to its
\* request after a failed open, and the connection of a failed open is not
\* kept in database.
C24_StoreErrorsPropagate ==
  \A c \in Calls :
    calls[c].failed # "none" =>
      /\ calls[c].pc = "error"
      /\ calls[c].value = Undefined
      /\ calls[c].failed = "open" => database # calls[c].db

\* C24's case: one call ended on a failed open, another on a failed get or
\* put.
C24_Witness ==
  \E c, d \in Calls :
    /\ calls[c].failed = "open" /\ calls[c].pc = "error"
    /\ calls[d].failed = "request" /\ calls[d].pc = "error"

\* The dpad messages posted on this step, and the directions held before it.
PostedNow == SubSeq(dpadLog', Len(dpadLog) + 1, Len(dpadLog'))
Held == {b \in DOMAIN AllUp : dpadState[b]}

\* C25: pointerup, pointercancel, and a pointerdown or a pointermove of a
\* pointer that is down outside the rectangle post one up message for each
\* direction held and no other message, and leave dpadState all-false and
\* the pointer not down; while the pointer is not down no direction is held,
\* a pointermove posts nothing and changes nothing, and only a pointerdown
\* makes the pointer down again.
C25_ReleaseOnEnd ==
  /\ [](~isPointerDown => dpadState = AllUp)
  /\ [][dpadEvents' # dpadEvents =>
          LET e == dpadEvents'[Len(dpadEvents')] IN
          /\ (\/ e.type \in {"pointerup", "pointercancel"}
              \/ (~e.inside /\ (e.type = "pointerdown" \/ isPointerDown))) =>
               /\ dpadState' = AllUp /\ ~isPointerDown'
               /\ Len(PostedNow) = Cardinality(Held)
               /\ {PostedNow[i] : i \in 1..Len(PostedNow)} =
                    {[button |-> b, event |-> "up"] : b \in Held}
          /\ (e.type = "pointermove" /\ ~isPointerDown) =>
               /\ dpadLog' = dpadLog /\ dpadState' = dpadState /\ ~isPointerDown'
          /\ (isPointerDown' /\ ~isPointerDown) => e.type = "pointerdown"]_vars

\* C25's case: a direction was held, the pointer went up, and a pointermove
\* over another zone followed without a message.
C25_Witness ==
  /\ dpadEvents =
       <<[type |-> "pointerdown", inside |-> TRUE, zone |-> [AllUp EXCEPT !.up = TRUE]],
         [type |-> "pointerup", inside |-> FALSE, zone |-> AllUp],
         [type |-> "pointermove", inside |-> TRUE, zone |-> [AllUp EXCEPT !.right = TRUE]]>>
  /\ dpadLog = <<[button |-> "up", event |-> "down"], [button |-> "up", event |-> "up"]>>

\* C26: a keydown that is not a repeat, of a mapped key, posts one down
\* message for the key's button; a repeated keydown posts nothing; a keyup of
\* a mapped key posts one up message; an unmapped key posts nothing; no other
\* port gets a message.
C26_KeyFanOut ==
  [][\A type \in {"keydown", "keyup"}, key \in Keys, repeat \in BOOLEAN :
       KeyEvent(type, key, repeat) =>
         LET button == input_mapping(key)
             posted == SubSeq(toHost'[node], Len(toHost[node]) + 1, Len(toHost'[node]))
         IN /\ SubSeq(toHost'[node], 1, Len(toHost[node])) = toHost[node]
            /\ \A h \in Hosts \ {node} : toHost'[h] = toHost[h]
            /\ button = "undefined" => posted = <<>>
            /\ (button # "undefined" /\ type = "keydown" /\ ~repeat) =>
                 posted = <<InputMsg(button, "down")>>
            /\ (type = "keydown" /\ repeat) => posted = <<>>
            /\ (button # "undefined" /\ type = "keyup") =>
                 posted = <<InputMsg(button, "up")>>]_vars

\* C26's case: the ArrowLeft key went down, the Host pressed left, and the
\* key's up message is in the port.
C26_Witness ==
  /\ pressed[node]["left"]
  /\ toHost[node] = <<InputMsg("left", "up")>>

\* C27: in Relaying an inbound one-byte binary message appends one serial
\* message with that byte to the port's queue; before Relaying no inbound
\* message posts anything; a serial message of the Host handled on the port is
\* sent, as that one byte and after the bytes sent before, on every open
\* connection of the port that is Relaying; nothing else is ever sent.
C27_RelayForwarding ==
  [][/\ \A c \in Conns, d \in WsData :
          WsMessage(c, d) =>
            /\ (RelayPhase(ws[c]) = "Relaying" /\ d.kind = "binary" /\ Len(d.bytes) = 1) =>
                 toHost' = [toHost EXCEPT ![ws[c].port] = Append(@, SerialMsg(d.bytes[1]))]
            /\ RelayPhase(ws[c]) # "Relaying" => toHost' = toHost
     /\ \A h \in Hosts, c \in Conns :
          (/\ MainHandle(h) /\ Head(toMain[h]).type = "serial"
           /\ RelayPhase(ws[c]) = "Relaying" /\ ws[c].port = h /\ ~ws[c].closed) =>
            ws'[c].sent = Append(ws[c].sent, Head(toMain[h]).byte)
     /\ \A c \in Conns :
          ws'[c].sent # ws[c].sent =>
            /\ toMain[ws[c].port] # <<>>
            /\ Head(toMain[ws[c].port]).type = "serial"
            /\ MainHandle(ws[c].port)
            /\ ws'[c].sent = Append(ws[c].sent, Head(toMain[ws[c].port]).byte)]_vars

\* C27's case: a host in Relaying has sent two different local bytes in the
\* order they were produced, and a byte of the peer is in the port.
C27_Witness ==
  \E c \in Conns :
    /\ ws[c].role = "host" /\ ws[c].state = "done" /\ ~ws[c].closed
    /\ ws[c].sent = <<7, 9>>
    /\ toHost[ws[c].port] # <<>>
    /\ Head(toHost[ws[c].port]).type = "serial"

\* C28: a message of the wrong type for its connection's state changes
\* nothing of the Controller (isNodeReady, the pending slot, the image), of
\* the Host (engine, ROM, autosave counter, buttons) or of the port's queues;
\* with a failed connection the Controller still handles every waiting Host
\* message and every constructed Host still runs its quantum.
C28_ViolationIsLocal ==
  /\ [][\A c \in Conns, d \in WsData :
          (WsMessage(c, d) /\ Malformed(ws[c], d)) =>
            /\ ws'[c].failed
            /\ ctlVars' = ctlVars /\ hostVars' = hostVars
            /\ toMain' = toMain /\ toHost' = toHost]_vars
  /\ [](\A c \in Conns : ws[c].failed =>
          \A h \in Hosts :
            /\ (h <= nHosts /\ toMain[h] # <<>>) => ENABLED MainHandle(h)
            /\ (constructed[h] /\ Len(toMain[h]) < MaxQueue) => ENABLED Quantum(h))

\* C28's case: a connection has failed, a quantum has driven the engine and
\* its frame waits for the Controller.
C28_Witness ==
  \E c \in Conns :
    /\ ws[c].failed
    /\ lastCall.result = "true"
    /\ toMain[ws[c].port] # <<>> /\ Head(toMain[ws[c].port]).type = "frame"

\* C29: a visibility change posts one message to each node's port,
\* disableMessages when the page became hidden and enableMessages when it
\* became visible; the Host handling either leaves its engine, ROM, autosave
\* counter and buttons and posts nothing; a constructed Host can always run
\* its quantum.
C29_VisibilityMessages ==
  /\ [][visible' # visible =>
          \A h \in Hosts :
            toHost'[h] =
              (IF h <= nHosts
               THEN Append(toHost[h],
                           [type |-> IF visible' THEN "enableMessages" ELSE "disableMessages",
                            rom |-> 0, save |-> Undefined])
               ELSE toHost[h])]_vars
  /\ [][\A h \in Hosts :
          (HostHandle(h) /\ Head(toHost[h]).type \in {"enableMessages", "disableMessages"}) =>
            hostVars' = hostVars /\ toMain' = toMain]_vars
  /\ [](\A h \in Hosts :
          (constructed[h] /\ Len(toMain[h]) < MaxQueue) => ENABLED Quantum(h))

\* C29's case: the page went hidden, the Host handled disableMessages, a
\* quantum has driven the engine, and the page is visible again with
\* enableMessages posted.
C29_Witness ==
  /\ visible
  /\ toHost[node] = <<[type |-> "enableMessages", rom |-> 0, save |-> Undefined]>>
  /\ lastCall.result = "true"

\* C30: at most one AudioWorkletNode, and so one Host and one set of
\* listeners, is ever created.
C30_SingleNode ==
  /\ nHosts <= 1
  /\ Cardinality({h \in Hosts : constructed[h]}) <= 1

\* The ROMs of the rom messages waiting in Host h's port, in order.
RomsQueued(h) ==
  LET q == SelectSeq(toHost[h], LAMBDA m : m.type = "rom") IN
  [i \in 1..Len(q) |-> q[i].rom]

\* C31: with one node, the rom messages in a Host's port are in selection
\* order and are of selections made later than the ROM the Host has loaded.
C31_PostedInSelectionOrder ==
  nHosts <= 1 =>
    \A h \in Hosts :
      /\ \A i, j \in 1..Len(RomsQueued(h)) : i < j => RomsQueued(h)[i] < RomsQueued(h)[j]
      /\ \A i \in 1..Len(RomsQueued(h)) : RomsQueued(h)[i] > loadedRom[h]

\* C32: the Host handling an input or a rom message without an engine takes
\* the message off its port and changes nothing else of the Host and posts
\* nothing; a Host without engine has no button pressed and no ROM; the engine
\* instantiated by the wasm message starts with no button pressed and no ROM.
C32_NoEngineNoEffect ==
  /\ [][\A h \in Hosts :
          /\ (HostHandle(h) /\ ~emulator[h] /\ Head(toHost[h]).type \in {"input", "rom"}) =>
               /\ hostVars' = hostVars
               /\ toMain' = toMain
               /\ toHost'[h] = Tail(toHost[h])
          /\ (HostHandle(h) /\ Head(toHost[h]).type = "wasm") =>
               pressed'[h] = NonePressed /\ loadedRom'[h] = 0]_vars
  /\ [](\A h \in Hosts : ~emulator[h] => pressed[h] = NonePressed /\ loadedRom[h] = 0)

\* C32's case: a Host handled an input message and a rom message without
\* engine, has its engine now and nothing left to handle, and the engine holds
\* no ROM and no pressed button.
C32_Witness ==
  \E h \in romNoEngine \cap inputNoEngine :
    /\ emulator[h] /\ loadedRom[h] = 0
    /\ pressed[h] = NonePressed
    /\ toHost[h] = <<>>

\* C33: as host, a serial byte of the local Host is sent on the socket only
\* while the connection is Relaying: the bytes sent on a host connection grow
\* in no step taken in WaitingForRoomName or WaitingForPeer, and in no step
\* taken after the connection has closed.
C33_HostSendsOnlyWhenRelaying ==
  [][\A c \in Conns :
       (ws[c].role = "host" /\ ws'[c].sent # ws[c].sent) =>
         RelayPhase(ws[c]) = "Relaying" /\ ~ws[c].closed]_vars

\* C34: every frame buffer the Host has sent holds exactly a quarter as
\* many bytes as the image has pixels, and for every index i of the buffer
\* and pixel k in 0..3 the last index its decoding writes,
\* (i * 4 + k) * 4 + 3, is below the length of the RGBA image.
C34_FrameFitsImage ==
  \A h \in Hosts : \A n \in 1..Len(toMain[h]) :
    toMain[h][n].type = "frame" =>
      LET buffer == toMain[h][n].buffer IN
      /\ 4 * Len(buffer) = ImagePixels
      /\ \A i \in 0..(Len(buffer) - 1), k \in 0..3 :
           (i * 4 + k) * 4 + 3 < Len(imageData)

\* The directions whose last dpad message is a down message.
Unreleased ==
  {b \in DOMAIN AllUp :
     LET about == {i \in 1..Len(dpadLog) : dpadLog[i].button = b}
     IN about # {} /\ \E i \in about : (\A j \in about : j <= i) /\ dpadLog[i].event = "down"}

\* C35: for the dpad of gebeh-web/ts/buttons.ts, every direction with a down
\* message and no later up message is true in dpadState, and after a
\* pointerup no direction is left with a down message and no later up.
C35_DownIsRecorded ==
  /\ \A b \in Unreleased : dpadState[b]
  /\ (dpadEvents # <<>> /\ dpadEvents[Len(dpadEvents)].type = "pointerup") =>
       Unreleased = {}

====
